---------------------------- MODULE Spec2Model ----------------------------
(***************************************************************************)
(* NeuraForge: a scalar reverse-mode automatic differentiation engine      *)
(* (class Value), the mean-squared-error loss built on it (MSEloss) and    *)
(* the parameter initialisation of the feed-forward network (NeuralNet).   *)
(*                                                                         *)
(* Python's numbers are modelled as exact rationals <<num, den>> in lowest *)
(* terms with den > 0.  The Value objects live in `heap`, a sequence in    *)
(* creation order; a Value is named by its index, and the closure          *)
(* `_backward` bound to it is the tag `op` together with the names the     *)
(* closure captures (self and other are children[1] and children[2], a     *)
(* numeric `other` is the field other, out is the node itself).            *)
(***************************************************************************)
EXTENDS Integers, Sequences, FiniteSets, TLC

VARIABLES heap, pre, calls, root, nback, last, loss, net

vars == <<heap, pre, calls, root, nback, last, loss, net>>

---------------------------------------------------------------------------
(* Bounds of the model.                                                    *)

MaxLeaves == 2
MaxDerived == 3
MaxLater == 2
MaxBackward == 2
MaxMag == 1000

MaxMixed == 2
MaxExpArg == 1
MaxRPowArg == 3
MaxLossLen == 2
MaxWidth == 2
MaxHidden == 2

LeafVals == {2, 5}
PowExps == {2}
ActVals == {0, 1, 2}
ActExps == {2, -1}
RPowBases == {2}
MixedNums == {0, 2}
LossVals == {1, 2}
TargetVals == {1, 4}
RandVals == {<<0, 1>>, <<1, 2>>}

---------------------------------------------------------------------------
(* Numbers.                                                                *)

Abs(x) == IF x < 0 THEN -x ELSE x

RECURSIVE Gcd(_, _)
Gcd(a, b) == IF b = 0 THEN a ELSE Gcd(b, a % b)

Rat(n, d) ==
    LET g == Gcd(Abs(n), Abs(d))
        s == IF d < 0 THEN -1 ELSE 1
    IN  <<(s * n) \div g, (s * d) \div g>>

Num(n) == <<n, 1>>
Zero == <<0, 1>>
One == <<1, 1>>

PyNeg(x) == <<-x[1], x[2]>>

PyAdd(x, y) ==
    LET g == Gcd(x[2], y[2])
    IN  Rat(x[1] * (y[2] \div g) + y[1] * (x[2] \div g), x[2] * (y[2] \div g))

PySub(x, y) == PyAdd(x, PyNeg(y))

PyMul(x, y) ==
    LET a == Rat(x[1], y[2])
        b == Rat(y[1], x[2])
    IN  <<a[1] * b[1], a[2] * b[2]>>

RECURSIVE NatPow(_, _)
NatPow(x, p) == IF p = 0 THEN One ELSE PyMul(x, NatPow(x, p - 1))

\* x ** p for an integer p; x ** p with x = 0 and p < 0 raises
\* ZeroDivisionError and is never evaluated (see PowRaises).
PyPow(x, p) ==
    IF p >= 0 THEN NatPow(x, p) ELSE NatPow(Rat(x[2], x[1]), -p)

PowRaises(x, p) == x[1] = 0 /\ p < 0

IsInt(x) == x[2] = 1

\* math.e and math.log: a float is a rational approximation of the real
\* number, and the model keeps one of fewer digits (e ~ 19/7, ln 2 ~ 9/13,
\* ln 3 ~ 11/10); math.e ** x and c ** x are taken at integer x only.
MathE == <<19, 7>>

MathLog(c) ==
    CASE c = 1 -> Zero
      [] c = 2 -> <<9, 13>>
      [] c = 3 -> <<11, 10>>

PyDiv(x, y) == PyMul(x, PyPow(y, -1))

Fits(x) == Abs(x[1]) <= MaxMag /\ x[2] <= MaxMag

---------------------------------------------------------------------------
(* class Value.                                                            *)

Range(s) == {s[i] : i \in DOMAIN s}

Reverse(s) == [i \in 1..Len(s) |-> s[Len(s) + 1 - i]]

\* Value.__init__: grad 0, _backward the no-op lambda, children as given.
Value(value, children) ==
    [value |-> value, grad |-> Zero, children |-> children,
     op |-> "leaf", other |-> Zero]

\* self.prev = set(self.children)
Prev(h, v) == Range(h[v].children)

IsLeaf(h, v) == h[v].children = <<>>

Leaves(h) == {v \in DOMAIN h : IsLeaf(h, v)}

Derived(h) == {v \in DOMAIN h : ~IsLeaf(h, v)}

\* out = Value(...); out._backward = _backward
Bind(h, node, op, other) ==
    Append(h, [node EXCEPT !.op = op, !.other = other])

ValueAdd(h, self, other) ==
    Bind(h, Value(PyAdd(h[self].value, h[other].value), <<self, other>>),
         "add", Zero)

ValueSub(h, self, other) ==
    Bind(h, Value(PySub(h[self].value, h[other].value), <<self, other>>),
         "sub", Zero)

ValueMul(h, self, other) ==
    Bind(h, Value(PyMul(h[self].value, h[other].value), <<self, other>>),
         "mul", Zero)

ValuePow(h, self, p) ==
    Bind(h, Value(PyPow(h[self].value, p), <<self>>), "pow", Num(p))

ValueRPow(h, self, c) ==
    Bind(h, Value(PyPow(Num(c), h[self].value[1]), <<self>>), "rpow", Num(c))

ValueTanh(h, self) ==
    LET v == h[self].value[1]
        ep == PyPow(MathE, v)
        en == PyPow(MathE, -v)
    IN  Bind(h, Value(PyDiv(PySub(ep, en), PyAdd(ep, en)), <<self>>),
             "tanh", Zero)

ValueSigmoid(h, self) ==
    LET v == h[self].value[1]
    IN  Bind(h, Value(PyDiv(One, PyAdd(One, PyPow(MathE, v))), <<self>>),
             "sigmoid", Zero)

\* self * other ** -1, other a Value
ValueTrueDiv(h, self, other) ==
    LET h1 == ValuePow(h, other, -1)
    IN  ValueMul(h1, self, Len(h1))

\* self * Value(-1)
ValueNeg(h, self) ==
    LET h1 == Append(h, Value(Num(-1), <<>>))
    IN  ValueMul(h1, self, Len(h1))

\* The methods class Value defines.  For n op v with n a number, Python
\* calls the reflected method of v's class, and raises TypeError when the
\* class defines none.
ValueMethods ==
    {"__init__", "__add__", "__radd__", "__sub__", "__mul__", "__rmul__",
     "__truediv__", "__rtruediv__", "__neg__", "__pow__", "__rpow__",
     "__repr__", "backward", "tanh", "sigmoid"}

Defines(name) == name \in ValueMethods

\* self + n, n a number: self + Value(n)
ValueAddNum(h, self, n) ==
    LET h1 == Append(h, Value(n, <<>>))
    IN  ValueAdd(h1, self, Len(h1))

\* self - n, n a number: self - Value(n)
ValueSubNum(h, self, n) ==
    LET h1 == Append(h, Value(n, <<>>))
    IN  ValueSub(h1, self, Len(h1))

\* self * n, n a number: self * Value(n)
ValueMulNum(h, self, n) ==
    LET h1 == Append(h, Value(n, <<>>))
    IN  ValueMul(h1, self, Len(h1))

\* self / n, n a number: self * n ** -1, the power taken on numbers
ValueTrueDivNum(h, self, n) == ValueMulNum(h, self, PyPow(n, -1))

\* n / self, n a number: n * self ** -1, and n * v is v.__rmul__(n)
ValueRTrueDivNum(h, self, n) ==
    LET h1 == ValuePow(h, self, -1)
    IN  ValueMulNum(h1, Len(h1), n)

AddGrad(h, v, x) == [h EXCEPT ![v].grad = PyAdd(@, x)]

SetGrad(h, v, x) == [h EXCEPT ![v].grad = x]

AddBackward(h, out) ==
    LET self == h[out].children[1]
        other == h[out].children[2]
        h1 == AddGrad(h, self, h[out].grad)
    IN  AddGrad(h1, other, h1[out].grad)

SubBackward(h, out) ==
    LET self == h[out].children[1]
        other == h[out].children[2]
        h1 == AddGrad(h, self, h[out].grad)
    IN  AddGrad(h1, other, PyNeg(h1[out].grad))

\* MulBackward assigning where it should add.
MulBackwardOverwrite(h, out) ==
    LET self == h[out].children[1]
        other == h[out].children[2]
        h1 == SetGrad(h, self, PyMul(h[other].value, h[out].grad))
    IN  SetGrad(h1, other, PyMul(h1[self].value, h1[out].grad))

MulBackward(h, out) ==
    LET self == h[out].children[1]
        other == h[out].children[2]
        h1 == AddGrad(h, self, PyMul(h[other].value, h[out].grad))
    IN  AddGrad(h1, other, PyMul(h1[self].value, h1[out].grad))

PowBackward(h, out) ==
    LET self == h[out].children[1]
        other == h[out].other[1]
    IN  AddGrad(h, self,
                PyMul(PyMul(Num(other), PyPow(h[self].value, other - 1)),
                      h[out].grad))

RPowBackward(h, out) ==
    LET self == h[out].children[1]
        other == h[out].other[1]
    IN  AddGrad(h, self,
                PyMul(PyPow(Num(other), h[self].value[1]), MathLog(other)))

\* TanhBackward adding where it assigns.
TanhBackwardAccumulate(h, out) ==
    LET self == h[out].children[1]
    IN  AddGrad(h, self, PySub(One, PyPow(h[out].value, 2)))

TanhBackward(h, out) ==
    LET self == h[out].children[1]
    IN  SetGrad(h, self, PySub(One, PyPow(h[out].value, 2)))

SigmoidBackward(h, out) ==
    LET self == h[out].children[1]
    IN  SetGrad(h, self, PyMul(h[out].value, PySub(One, h[out].value)))

\* i._backward()
LocalBackward(h, out) ==
    CASE h[out].op = "add" -> AddBackward(h, out)
      [] h[out].op = "sub" -> SubBackward(h, out)
      [] h[out].op = "mul" -> MulBackward(h, out)
      [] h[out].op = "pow" -> PowBackward(h, out)
      [] h[out].op = "rpow" -> RPowBackward(h, out)
      [] h[out].op = "tanh" -> TanhBackward(h, out)
      [] h[out].op = "sigmoid" -> SigmoidBackward(h, out)
      [] OTHER -> h

---------------------------------------------------------------------------
(* Value.backward.                                                         *)

\* build_topo: the states [visited, topo] the recursion can end in.  The
\* loop `for child in v.prev` walks a set, whose iteration order the
\* language leaves open: every order is an outcome.
RECURSIVE BuildTopo(_, _, _)
RECURSIVE ForChildren(_, _, _)
BuildTopo(h, v, st) ==
    IF v \in st.visited
    THEN {st}
    ELSE {[s EXCEPT !.topo = Append(@, v)] :
            s \in ForChildren(h, Prev(h, v),
                              [st EXCEPT !.visited = @ \cup {v}])}

ForChildren(h, S, st) ==
    IF S = {}
    THEN {st}
    ELSE UNION {UNION {ForChildren(h, S \ {child}, s) :
                         s \in BuildTopo(h, child, st)} : child \in S}

Topos(h, r) ==
    {s.topo : s \in BuildTopo(h, r, [visited |-> {}, topo |-> <<>>])}

\* Seed clearing every grad first.
SeedAfterReset(h, r) ==
    SetGrad([v \in DOMAIN h |-> [h[v] EXCEPT !.grad = Zero]], r, One)

\* self.grad = 1
Seed(h, r) == SetGrad(h, r, One)

\* CallOrder without the reversal.
CallOrderForward(t) == t

\* reversed(topo)
CallOrder(t) == Reverse(t)

\* for i in reversed(topo): i._backward()
RECURSIVE RunBackward(_, _)
RunBackward(h, order) ==
    IF order = <<>>
    THEN h
    ELSE RunBackward(LocalBackward(h, Head(order)), Tail(order))

BackwardResult(h, r, t) == RunBackward(Seed(h, r), CallOrder(t))

---------------------------------------------------------------------------
(* MSEloss.  x is a list of Values, y a list of targets that are all ints  *)
(* ("int"), all floats ("float") or all Values ("Value"); a number is      *)
(* given by its value and a Value by its index.                            *)

\* if isinstance(y[0], int): y = [Value(i) for i in y]
RECURSIVE ValuesOf(_, _)
ValuesOf(h, y) ==
    IF y = <<>> THEN h ELSE ValuesOf(Append(h, Value(Head(y), <<>>)), Tail(y))

\* (x_ - y_) ** 2
LossTerm(h, x_, y_, isValue) ==
    LET h1 == IF isValue THEN ValueSub(h, x_, y_) ELSE ValueSubNum(h, x_, y_)
    IN  ValuePow(h1, Len(h1), 2)

\* for (x_, y_) in zip(x, y): sum_ += (x_ - y_) ** 2
RECURSIVE LossSum(_, _, _, _, _)
LossSum(h, sum_, x, y, isValue) ==
    IF x = <<>>
    THEN h
    ELSE LET h1 == LossTerm(h, Head(x), Head(y), isValue)
             h2 == ValueAdd(h1, sum_, Len(h1))
         IN  LossSum(h2, Len(h2), Tail(x), Tail(y), isValue)

\* LossMean multiplying where it should divide.
LossMeanTimes(h, sum_, n) ==
    LET h1 == Append(h, Value(Num(n), <<>>))
    IN  ValueMul(h1, sum_, Len(h1))

\* return sum_ / Value(len(x))
LossMean(h, sum_, n) ==
    LET h1 == Append(h, Value(Num(n), <<>>))
    IN  ValueTrueDiv(h1, sum_, Len(h1))

\* The heap after MSEloss(x, y); the Value returned is the newest.
MSElossHeap(h, x, y, kind) ==
    LET h1 == IF kind = "int" THEN ValuesOf(h, y) ELSE h
        y1 == IF kind = "int" THEN [i \in DOMAIN y |-> Len(h) + i] ELSE y
        h2 == Append(h1, Value(Zero, <<>>))
        h3 == LossSum(h2, Len(h2), x, y1, kind # "float")
    IN  LossMean(h3, Len(h3), Len(x))

---------------------------------------------------------------------------
(* NeuralNet.  A Python list is [kind |-> "list", items |-> <<...>>], a    *)
(* parameter is [kind |-> "Value", ...] and a plain number is              *)
(* [kind |-> "num", ...].                                                  *)

PyList(items) == [kind |-> "list", items |-> items]

PyNum(x) == [kind |-> "num", value |-> x]

Param(x) == [kind |-> "Value", value |-> x, grad |-> Zero]

\* [Value(np.random.rand()) for _ in range(x)]: every list of x draws.
RandomRow(x) == {PyList([i \in 1..x |-> Param(d[i])]) : d \in [1..x -> RandVals]}

\* NeuralNet.random(x, y): the values it can return.
Random(x, y) ==
    IF y = 0
    THEN RandomRow(x)
    ELSE {PyList(m) : m \in [1..y -> RandomRow(x)]}

\* The lists whose i-th item is drawn from sets[i].
RECURSIVE ListsOf(_)
ListsOf(sets) ==
    IF sets = <<>>
    THEN {<<>>}
    ELSE {<<m>> \o rest : m \in Head(sets), rest \in ListsOf(Tail(sets))}

\* setWeights, the weights it can assign (input and output_layer not 0).
Weights(n) ==
    IF n.hidden = <<>>
    THEN Random(n.input, n.output_layer)
    ELSE IF Len(n.hidden) = 1
    THEN {PyList(ms) :
            ms \in ListsOf(<<Random(n.input, n.hidden[1]),
                             Random(n.hidden[1], n.output_layer)>>)}
    ELSE {PyList(ms) :
            ms \in ListsOf(
                <<Random(n.input, n.hidden[1])>>
                \o [h \in 1..(Len(n.hidden) - 1) |->
                      Random(n.hidden[h], n.hidden[h + 1])]
                \o <<Random(n.hidden[Len(n.hidden)], n.output_layer)>>)}

\* setWeights, the biases it can assign to weights w.
Biases(n, w) ==
    IF n.add_biases
    THEN Random(Len(w.items), 0)
    ELSE {PyList([i \in 1..Len(w.items) |-> PyNum(Zero)])}

---------------------------------------------------------------------------
(* Operations.                                                             *)

NoLoss == [x |-> <<>>, y |-> <<>>, kind |-> "none", out |-> 0]

NoOp == [op |-> "none", self |-> 0, arg |-> Zero, out |-> 0, err |-> "none"]

Done(op, self, arg, out) ==
    [op |-> op, self |-> self, arg |-> arg, out |-> out, err |-> "none"]

Raised(op, self, arg, err) ==
    [op |-> op, self |-> self, arg |-> arg, out |-> 0, err |-> err]

NoNet == [state |-> "none"]

\* Room for one more derived node.
Room(k) ==
    /\ Cardinality(Derived(heap)) + k
         <= (IF nback = 0 THEN MaxDerived ELSE MaxLater)

Created(h, op, self, arg) ==
    /\ Fits(h[Len(h)].value)
    /\ heap' = h
    /\ last' = Done(op, self, arg, Len(h))
    /\ UNCHANGED <<pre, calls, root, nback, loss, net>>

\* x = Value(v)
NewValue(v) ==
    /\ Derived(heap) = {}
    /\ Len(heap) < MaxLeaves
    /\ heap' = Append(heap, Value(Num(v), <<>>))
    /\ last' = Done("Value", 0, Num(v), Len(heap) + 1)
    /\ UNCHANGED <<pre, calls, root, nback, loss, net>>

\* self + other, both Values
Add(self, other) ==
    /\ Room(1)
    /\ Created(ValueAdd(heap, self, other), "add", self, Num(other))

\* self - other, both Values
Sub(self, other) ==
    /\ Room(1)
    /\ Created(ValueSub(heap, self, other), "sub", self, Num(other))

\* self * other, both Values
Mul(self, other) ==
    /\ Room(1)
    /\ Created(ValueMul(heap, self, other), "mul", self, Num(other))

\* self ** p, p a number
Pow(self, p) ==
    /\ Room(1)
    /\ ~PowRaises(heap[self].value, p)
    /\ Created(ValuePow(heap, self, p), "pow", self, Num(p))

\* r.backward().  The root is the newest node: a node created after r is
\* no operand of anything r reaches, and r.backward() neither reads nor
\* writes it.  A later pass thereby differentiates a graph built since the
\* earlier one.
Backward(r) ==
    /\ nback < MaxBackward
    /\ r = Len(heap)
    /\ r > Len(pre)
    /\ \E t \in Topos(heap, r) :
         /\ heap' = BackwardResult(heap, r, t)
         /\ calls' = CallOrder(t)
    /\ pre' = heap
    /\ root' = r
    /\ nback' = nback + 1
    /\ UNCHANGED <<last, loss, net>>

\* c ** self, c a number
RPow(c, self) ==
    /\ Room(1)
    /\ IsInt(heap[self].value)
    /\ Abs(heap[self].value[1]) <= MaxRPowArg
    /\ Created(ValueRPow(heap, self, c), "rpow", self, Num(c))

\* self.tanh()
Tanh(self) ==
    /\ Room(1)
    /\ IsInt(heap[self].value)
    /\ Abs(heap[self].value[1]) <= MaxExpArg
    /\ Created(ValueTanh(heap, self), "tanh", self, Zero)

\* self.sigmoid()
Sigmoid(self) ==
    /\ Room(1)
    /\ IsInt(heap[self].value)
    /\ Abs(heap[self].value[1]) <= MaxExpArg
    /\ Created(ValueSigmoid(heap, self), "sigmoid", self, Zero)

\* self / other, both Values
TrueDiv(self, other) ==
    /\ Room(2)
    /\ IF PowRaises(heap[other].value, -1)
       THEN /\ last' = Raised("truediv", self, Num(other), "ZeroDivisionError")
            /\ UNCHANGED <<heap, pre, calls, root, nback, loss, net>>
       ELSE Created(ValueTrueDiv(heap, self, other), "truediv", self,
                    Num(other))

\* -self
Neg(self) ==
    /\ Room(1)
    /\ Created(ValueNeg(heap, self), "neg", self, Zero)

\* Room for k more derived nodes in a graph of mixed operations.
RoomMixed(k) == Cardinality(Derived(heap)) + k <= MaxMixed

\* self + n
AddNum(self, n) ==
    /\ RoomMixed(1)
    /\ Created(ValueAddNum(heap, self, Num(n)), "self+n", self, Num(n))

\* n + self
RAddNum(n, self) ==
    /\ RoomMixed(1)
    /\ Defines("__radd__")
    /\ Created(ValueAddNum(heap, self, Num(n)), "n+self", self, Num(n))

\* self - n
SubNum(self, n) ==
    /\ RoomMixed(1)
    /\ Created(ValueSubNum(heap, self, Num(n)), "self-n", self, Num(n))

\* n - self
RSubNum(n, self) ==
    /\ RoomMixed(1)
    /\ ~Defines("__rsub__")
    /\ last' = Raised("n-self", self, Num(n), "TypeError")
    /\ UNCHANGED <<heap, pre, calls, root, nback, loss, net>>

\* self * n
MulNum(self, n) ==
    /\ RoomMixed(1)
    /\ Created(ValueMulNum(heap, self, Num(n)), "self*n", self, Num(n))

\* n * self
RMulNum(n, self) ==
    /\ RoomMixed(1)
    /\ Defines("__rmul__")
    /\ Created(ValueMulNum(heap, self, Num(n)), "n*self", self, Num(n))

\* self / n
TrueDivNum(self, n) ==
    /\ RoomMixed(1)
    /\ IF PowRaises(Num(n), -1)
       THEN /\ last' = Raised("self/n", self, Num(n), "ZeroDivisionError")
            /\ UNCHANGED <<heap, pre, calls, root, nback, loss, net>>
       ELSE Created(ValueTrueDivNum(heap, self, Num(n)), "self/n", self,
                    Num(n))

\* n / self
RTrueDivNum(n, self) ==
    /\ RoomMixed(2)
    /\ Defines("__rtruediv__")
    /\ IF PowRaises(heap[self].value, -1)
       THEN /\ last' = Raised("n/self", self, Num(n), "ZeroDivisionError")
            /\ UNCHANGED <<heap, pre, calls, root, nback, loss, net>>
       ELSE Created(ValueRTrueDivNum(heap, self, Num(n)), "n/self", self,
                    Num(n))

\* MSEloss(x, y)
MSEloss(x, y, kind) ==
    /\ Derived(heap) = {}
    /\ Len(x) = Len(y)
    /\ LET h == MSElossHeap(heap, x, y, kind)
       IN  /\ heap' = h
           /\ loss' = [x |-> x, y |-> y, kind |-> kind, out |-> Len(h)]
           /\ last' = Done("MSEloss", 0, Zero, Len(h))
    /\ UNCHANGED <<pre, calls, root, nback, net>>

\* NeuralNet(input, output_layer, hidden, add_biases)
NeuralNet(input, output_layer, hidden, add_biases) ==
    /\ net = NoNet
    /\ net' = [state |-> "new", input |-> input,
               output_layer |-> output_layer, hidden |-> hidden,
               add_biases |-> add_biases]
    /\ UNCHANGED <<heap, pre, calls, root, nback, last, loss>>

\* net.setWeights(), called once on a new network.  With input or
\* output_layer 0 no weights are assigned and len(self.weights) raises
\* AttributeError.
SetWeights ==
    /\ net.state = "new"
    /\ IF net.input # 0 /\ net.output_layer # 0
       THEN \E w \in Weights(net) : \E b \in Biases(net, w) :
                net' = [state |-> "set", input |-> net.input,
                        output_layer |-> net.output_layer,
                        hidden |-> net.hidden, add_biases |-> net.add_biases,
                        weights |-> w, biases |-> b]
       ELSE net' = [net EXCEPT !.state = "AttributeError"]
    /\ UNCHANGED <<heap, pre, calls, root, nback, last, loss>>

Init ==
    /\ heap = <<>>
    /\ pre = <<>>
    /\ calls = <<>>
    /\ root = 0
    /\ nback = 0
    /\ last = NoOp
    /\ loss = NoLoss
    /\ net = NoNet

Next ==
    \/ \E v \in LeafVals : NewValue(v)
    \/ \E self \in DOMAIN heap, other \in DOMAIN heap : Add(self, other)
    \/ \E self \in DOMAIN heap, other \in DOMAIN heap : Sub(self, other)
    \/ \E self \in DOMAIN heap, other \in DOMAIN heap : Mul(self, other)
    \/ \E self \in DOMAIN heap, p \in PowExps : Pow(self, p)
    \/ \E r \in DOMAIN heap : Backward(r)

Spec == Init /\ [][Next]_vars

\* Every operation of Value.
NextAct ==
    \/ \E v \in ActVals : NewValue(v) /\ heap = <<>>
    \/ \E self \in DOMAIN heap, other \in DOMAIN heap : Add(self, other)
    \/ \E self \in DOMAIN heap, other \in DOMAIN heap : Sub(self, other)
    \/ \E self \in DOMAIN heap, other \in DOMAIN heap : Mul(self, other)
    \/ \E self \in DOMAIN heap, p \in ActExps : Pow(self, p)
    \/ \E self \in DOMAIN heap, c \in RPowBases : RPow(c, self)
    \/ \E self \in DOMAIN heap : Tanh(self)
    \/ \E self \in DOMAIN heap : Sigmoid(self)
    \/ \E self \in DOMAIN heap, other \in DOMAIN heap : TrueDiv(self, other)
    \/ \E self \in DOMAIN heap : Neg(self)
    \/ \E r \in DOMAIN heap : Backward(r)

SpecAct == Init /\ [][NextAct]_vars

\* Operations between a Value and a plain number.
NextMixed ==
    \/ \E v \in LeafVals : NewValue(v)
    \/ \E self \in DOMAIN heap, n \in MixedNums : AddNum(self, n)
    \/ \E self \in DOMAIN heap, n \in MixedNums : RAddNum(n, self)
    \/ \E self \in DOMAIN heap, n \in MixedNums : SubNum(self, n)
    \/ \E self \in DOMAIN heap, n \in MixedNums : RSubNum(n, self)
    \/ \E self \in DOMAIN heap, n \in MixedNums : MulNum(self, n)
    \/ \E self \in DOMAIN heap, n \in MixedNums : RMulNum(n, self)
    \/ \E self \in DOMAIN heap, n \in MixedNums : TrueDivNum(self, n)
    \/ \E self \in DOMAIN heap, n \in MixedNums : RTrueDivNum(n, self)
    \/ \E r \in DOMAIN heap : Backward(r)

SpecMixed == Init /\ [][NextMixed]_vars

Lists(S, n) == UNION {[1..k -> S] : k \in 1..n}

\* The loss of predictions against targets.
NextLoss ==
    \/ \E v \in LossVals : NewValue(v)
    \/ /\ Derived(heap) = {}
       /\ \E x \in Lists(DOMAIN heap, MaxLossLen) :
          \/ \E y \in [DOMAIN x -> {Num(v) : v \in TargetVals}],
                kind \in {"int", "float"} : MSEloss(x, y, kind)
          \/ \E y \in [DOMAIN x -> DOMAIN heap] : MSEloss(x, y, "Value")
    \/ \E r \in DOMAIN heap : Backward(r)

SpecLoss == Init /\ [][NextLoss]_vars

\* The network's parameters.
NextNet ==
    \/ \E input \in 0..MaxWidth, output_layer \in 0..MaxWidth,
          hidden \in {<<>>} \cup Lists(1..MaxWidth, MaxHidden),
          add_biases \in BOOLEAN :
          NeuralNet(input, output_layer, hidden, add_biases)
    \/ SetWeights

SpecNet == Init /\ [][NextNet]_vars

---------------------------------------------------------------------------
(* The reference the properties are stated against: the graph reachable    *)
(* from a root, and the derivative of the root with respect to a node as   *)
(* the chain rule defines it from the local derivatives of each operation. *)

RECURSIVE Reach(_, _)
Reach(h, r) == {r} \cup UNION {Reach(h, c) : c \in Prev(h, r)}

Consumers(h, r, n) == {c \in Reach(h, r) : n \in Prev(h, c)}

\* d(out)/d(operand at position k), at the forward values.  The sigmoid
\* node's forward value is 1 / (1 + e^x), whose derivative is
\* -out * (1 - out).
Partial(h, out, k) ==
    LET o == h[out]
        x == h[o.children[k]].value
    IN  CASE o.op = "add" -> One
          [] o.op = "sub" -> IF k = 1 THEN One ELSE PyNeg(One)
          [] o.op = "mul" -> h[o.children[3 - k]].value
          [] o.op = "pow" -> PyMul(o.other, PyPow(x, o.other[1] - 1))
          [] o.op = "rpow" -> PyMul(o.value, MathLog(o.other[1]))
          [] o.op = "tanh" -> PySub(One, PyMul(o.value, o.value))
          [] o.op = "sigmoid" ->
               PyNeg(PyMul(o.value, PySub(One, o.value)))

RECURSIVE PartialFrom(_, _, _, _)
PartialFrom(h, out, n, k) ==
    IF k > Len(h[out].children)
    THEN Zero
    ELSE PyAdd(IF h[out].children[k] = n THEN Partial(h, out, k) ELSE Zero,
               PartialFrom(h, out, n, k + 1))

\* d(out)/dn, n an operand of out (at one position or at both).
PartialTo(h, out, n) == PartialFrom(h, out, n, 1)

\* dr/dn: 1 at the root, and otherwise the sum over the consumers c of n
\* of dr/dc * dc/dn.
RECURSIVE Exact(_, _, _)
RECURSIVE ExactFrom(_, _, _, _)
Exact(h, r, n) == IF n = r THEN One ELSE ExactFrom(h, r, n, n + 1)

ExactFrom(h, r, n, c) ==
    IF c > r
    THEN Zero
    ELSE PyAdd(IF c \in Consumers(h, r, n)
               THEN PyMul(Exact(h, r, c), PartialTo(h, c, n))
               ELSE Zero,
               ExactFrom(h, r, n, c + 1))

\* backward() has run on a freshly built graph: every node the root
\* reaches, the root aside, had grad 0.
FreshPass ==
    /\ nback >= 1
    /\ \A n \in Reach(pre, root) \ {root} : pre[n].grad = Zero

Arithmetic(h, r) ==
    \A n \in Reach(h, r) : h[n].op \in {"leaf", "add", "sub", "mul", "pow"}

Position(s, x) == CHOOSE i \in DOMAIN s : s[i] = x

\* The heap with every grad 0 but that of node c.
OnlyGrad(h, c) ==
    [v \in DOMAIN h |-> IF v = c THEN h[v] ELSE [h[v] EXCEPT !.grad = Zero]]

\* What the local_backward of c hands to its operand n, given c's grad.
Passed(h, c, n) == LocalBackward(OnlyGrad(h, c), c)[n].grad

RECURSIVE PassedFrom(_, _, _, _)
PassedFrom(h, r, n, c) ==
    IF c > r
    THEN Zero
    ELSE PyAdd(IF c \in Consumers(h, r, n) THEN Passed(h, c, n) ELSE Zero,
               PassedFrom(h, r, n, c + 1))

---------------------------------------------------------------------------
(* Properties.                                                             *)

\* C1: after backward() on the root of a freshly built graph of the
\* supported operations, every node the root reaches holds in grad the
\* exact derivative of the root with respect to it.
C1_ExactGradients ==
    FreshPass =>
        \A n \in Reach(heap, root) : heap[n].grad = Exact(heap, root, n)

\* C2: after backward() on a freshly built graph, a node that is an
\* operand of more than one consumer holds the sum of what all its
\* consumers hand to it: none overwrites another.
C2_SharedOperandAccumulates ==
    FreshPass =>
        \A n \in Reach(heap, root) :
            Cardinality(Consumers(heap, root, n)) > 1 =>
                heap[n].grad = PassedFrom(heap, root, n, n + 1)

\* The diamond d = (a + b) * (a - b) at a = 5, b = 2, fresh leaves.
IsDiamond ==
    /\ Len(heap) = 5
    /\ heap[1].value = Num(5) /\ heap[2].value = Num(2)
    /\ heap[3].op = "add" /\ heap[3].children = <<1, 2>>
    /\ heap[4].op = "sub" /\ heap[4].children = <<1, 2>>
    /\ heap[5].op = "mul" /\ heap[5].children = <<3, 4>>
    /\ root = 5
    /\ FreshPass

\* C2, the instance: after d.backward(), a.grad = 2 * a.value = 10.
DiamondGradient == IsDiamond => heap[1].grad = Num(10)

\* C3: backward() resets no grad: over persisting leaves that hold g0
\* from an earlier pass, a new graph of add, sub, mul and pow nodes (fresh
\* derived nodes, grad 0) leaves g0 + dR/dleaf in each leaf.
C3_LeafGradientsAccumulate ==
    (/\ nback >= 1
     /\ ~IsLeaf(heap, root)
     /\ Arithmetic(heap, root)
     /\ \A n \in Reach(pre, root) \ Leaves(pre) : pre[n].grad = Zero)
    => \A l \in Reach(heap, root) \cap Leaves(heap) :
           heap[l].grad = PyAdd(pre[l].grad, Exact(heap, root, l))

C3_Witness ==
    /\ nback = 2
    /\ ~IsLeaf(heap, root)
    /\ \A n \in Reach(pre, root) \ Leaves(pre) : pre[n].grad = Zero
    /\ \E l \in Reach(heap, root) \cap Leaves(heap) :
           /\ pre[l].grad # Zero
           /\ Exact(heap, root, l) # Zero

\* C7: backward() invokes the local_backward of every node the root
\* reaches exactly once, and that of a node only after those of all its
\* consumers.
C7_EachOnceAfterConsumers ==
    nback >= 1 =>
        /\ Range(calls) = Reach(heap, root)
        /\ Len(calls) = Cardinality(Reach(heap, root))
        /\ \A n \in Reach(heap, root) :
               \A c \in Consumers(heap, root, n) :
                   Position(calls, c) < Position(calls, n)

C7_Witness ==
    /\ nback >= 1
    /\ \E n \in Reach(heap, root) :
           /\ Cardinality(Consumers(heap, root, n)) > 1
           /\ \E c \in Consumers(heap, root, n) :
                  Cardinality(Prev(heap, c)) = 2

Activations(n) ==
    {c \in Consumers(heap, root, n) : heap[c].op \in {"tanh", "sigmoid"}}

\* The tanh or sigmoid consumer of n whose local_backward ran last.
LastActivation(n) ==
    CHOOSE c \in Activations(n) :
        \A d \in Activations(n) : Position(calls, d) <= Position(calls, c)

\* What the consumers of n that ran after consumer s handed to n.
RECURSIVE PassedAfter(_, _, _)
PassedAfter(n, s, c) ==
    IF c > root
    THEN Zero
    ELSE PyAdd(IF /\ c \in Consumers(heap, root, n)
                  /\ Position(calls, c) > Position(calls, s)
               THEN Passed(heap, c, n)
               ELSE Zero,
               PassedAfter(n, s, c + 1))

\* C8: the local_backward of a tanh node sets its operand's grad to
\* 1 - out.value^2 and that of a sigmoid node to out.value * (1 -
\* out.value): after backward() the operand holds that value plus what the
\* consumers that ran later added, and nothing of what it held before,
\* from the consumers that ran earlier or from an earlier pass.
C8_ActivationOverwrites ==
    nback >= 1 =>
        \A n \in Reach(heap, root) :
            Activations(n) # {} =>
                LET s == LastActivation(n)
                    t == heap[s]
                    set == IF t.op = "tanh"
                           THEN PySub(One, PyMul(t.value, t.value))
                           ELSE PyMul(t.value, PySub(One, t.value))
                IN  heap[n].grad = PyAdd(set, PassedAfter(n, s, n + 1))

\* A node feeds a tanh node and another consumer that ran before it and
\* handed it a gradient, which is lost.
C8_Witness ==
    /\ FreshPass
    /\ \E n \in Reach(heap, root) :
           /\ Activations(n) # {}
           /\ heap[LastActivation(n)].op = "tanh"
           /\ \E c \in Consumers(heap, root, n) :
                  /\ Position(calls, c) < Position(calls, LastActivation(n))
                  /\ Passed(heap, c, n) # Zero
           /\ heap[n].grad # PassedFrom(heap, root, n, n + 1)

\* C9: the local_backward of an rpow node out = c ** a adds
\* (c ** a.value) * ln(c) * out.grad to a.grad.
C9_RPowScaledByOutGrad ==
    FreshPass =>
        \A out \in Reach(heap, root) :
            (/\ heap[out].op = "rpow"
             /\ Consumers(heap, root, heap[out].children[1]) = {out})
            => heap[heap[out].children[1]].grad =
                   PyMul(PyMul(heap[out].value, MathLog(heap[out].other[1])),
                         heap[out].grad)

\* C10: on a graph of add, sub, mul and pow nodes with every grad 0
\* beforehand, every order in which the depth-first sort may walk the
\* operand sets leaves the same grads.
C10_OrderIndependent ==
    (FreshPass /\ Arithmetic(heap, root)) =>
        \A t \in Topos(pre, root) :
            BackwardResult(pre, root, t) = SubSeq(heap, 1, Len(pre))

C10_Witness ==
    /\ FreshPass
    /\ Arithmetic(heap, root)
    /\ Cardinality(Topos(pre, root)) > 1
    /\ \E n \in Reach(heap, root) :
           Cardinality(Consumers(heap, root, n)) > 1

RECURSIVE SquaredError(_)
\* sum((x_i - y_i)^2) over the positions from i on.
SquaredError(i) ==
    IF i > Len(loss.x)
    THEN Zero
    ELSE LET x_ == heap[loss.x[i]].value
             y_ == IF loss.kind = "Value"
                   THEN heap[loss.y[i]].value
                   ELSE loss.y[i]
         IN  PyAdd(PyMul(PySub(x_, y_), PySub(x_, y_)), SquaredError(i + 1))

Target(i) ==
    IF loss.kind = "Value" THEN heap[loss.y[i]].value ELSE loss.y[i]

\* The predictions are distinct Values, and no target is one of them.
PlainLoss ==
    /\ \A i, j \in DOMAIN loss.x : loss.x[i] = loss.x[j] => i = j
    /\ loss.kind = "Value" => Range(loss.y) \cap Range(loss.x) = {}

\* C4: MSEloss(x, y) returns one Value, sum((x_i - y_i)^2) / n, and
\* backward() on it leaves 2 * (x_i - y_i) / n in each prediction; for
\* predictions [1, 2] and targets [1, 4] that is the value 2 and the grads
\* 0 and -2.
C4_MeanSquaredError ==
    loss.out # 0 =>
        LET n == Len(loss.x)
        IN  /\ loss.out = Len(heap)
            /\ heap[loss.out].value = PyMul(SquaredError(1), <<1, n>>)
            /\ (FreshPass /\ root = loss.out /\ PlainLoss) =>
                   \A i \in DOMAIN loss.x :
                       heap[loss.x[i]].grad =
                           PyMul(PyMul(Num(2),
                                       PySub(heap[loss.x[i]].value, Target(i))),
                                 <<1, n>>)
            /\ (/\ Len(loss.x) = 2 /\ loss.kind # "Value"
                /\ heap[loss.x[1]].value = Num(1)
                /\ heap[loss.x[2]].value = Num(2)
                /\ loss.y = <<Num(1), Num(4)>>
                /\ FreshPass /\ root = loss.out)
               => /\ heap[loss.out].value = Num(2)
                  /\ heap[loss.x[1]].grad = Zero
                  /\ heap[loss.x[2]].grad = Num(-2)

C4_Witness ==
    /\ loss.out # 0
    /\ Len(loss.x) = 2 /\ loss.kind = "float"
    /\ heap[loss.x[1]].value = Num(1)
    /\ heap[loss.x[2]].value = Num(2)
    /\ loss.y = <<Num(1), Num(4)>>
    /\ FreshPass /\ root = loss.out
    /\ heap[loss.x[2]].grad = Num(-2)

MixedOps ==
    {"self+n", "n+self", "self-n", "n-self", "self*n", "n*self", "self/n",
     "n/self"}

\* The division the operation asks for is one by zero.
ByZero ==
    \/ last.op = "self/n" /\ last.arg = Zero
    \/ last.op = "n/self" /\ heap[last.self].value = Zero

\* The value of a op n and n op a by the rule table.
MixedValue(op, a, n) ==
    CASE op \in {"self+n", "n+self"} -> PyAdd(a, n)
      [] op = "self-n" -> PySub(a, n)
      [] op = "n-self" -> PySub(n, a)
      [] op \in {"self*n", "n*self"} -> PyMul(a, n)
      [] op = "self/n" -> PyDiv(a, n)
      [] op = "n/self" -> PyDiv(n, a)

\* The derivative of a op n and n op a with respect to a.
MixedPartial(op, a, n) ==
    CASE op \in {"self+n", "n+self", "self-n"} -> One
      [] op = "n-self" -> PyNeg(One)
      [] op \in {"self*n", "n*self"} -> n
      [] op = "self/n" -> PyDiv(One, n)
      [] op = "n/self" -> PyNeg(PyDiv(n, PyMul(a, a)))

MixedFollowsTable ==
    /\ last.err = "none"
    /\ heap[last.out].value =
           MixedValue(last.op, heap[last.self].value, last.arg)
    /\ (FreshPass /\ root = last.out) =>
           heap[last.self].grad =
               MixedPartial(last.op, heap[last.self].value, last.arg)

\* C5: for add, sub, mul and div, a Value a and a number n, both a op n
\* and n op a succeed (division by zero aside) and give a node whose value
\* and whose gradient to a follow the rule table.
C5_MixedSymmetric ==
    (last.op \in MixedOps /\ ~ByZero) => MixedFollowsTable

\* C5 but for n - a: the other seven forms follow the rule table.
MixedExceptRSub ==
    (last.op \in MixedOps \ {"n-self"} /\ ~ByZero) => MixedFollowsTable

IsMatrix(m, rows, cols) ==
    /\ m.kind = "list"
    /\ Len(m.items) = rows
    /\ \A r \in 1..rows :
           /\ m.items[r].kind = "list"
           /\ Len(m.items[r].items) = cols
           /\ \A c \in 1..cols : m.items[r].items[c].kind = "Value"

\* L weight matrices whose shapes chain the widths, and L biases.
ShapesChain ==
    LET widths == <<net.input>> \o net.hidden \o <<net.output_layer>>
        L == Len(net.hidden) + 1
    IN  /\ net.weights.kind = "list"
        /\ Len(net.weights.items) = L
        /\ \A i \in 1..L :
               IsMatrix(net.weights.items[i], widths[i + 1], widths[i])
        /\ net.biases.kind = "list"
        /\ Len(net.biases.items) = L
        /\ \A i \in 1..L :
               IF net.add_biases
               THEN net.biases.items[i].kind = "Value"
               ELSE net.biases.items[i] = PyNum(Zero)

\* C6: after setWeights on positive input and output widths and k >= 0
\* hidden widths, the network holds k + 1 weight matrices whose shapes
\* chain input -> hidden -> output, and k + 1 biases.
C6_ParameterShapes == net.state = "set" => ShapesChain

\* C6 with at least one hidden layer.
ShapesChainWithHidden ==
    (net.state = "set" /\ net.hidden # <<>>) => ShapesChain

=============================================================================
